---------------------------- MODULE Spec2Model ----------------------------
(***************************************************************************)
(* A model of src/air_screw.js: the blade-element thrust/power calculator. *)
(* The file holds two variants of the same program (lines 1-216, the       *)
(* "polar" drag model with omega = 2*PI*RPM, and lines 217-428, the        *)
(* "direct" drag table with omega = 2*PI*RPM/60); cfg.variant selects one. *)
(*                                                                         *)
(* Numbers.  JavaScript numbers are modelled as extended exact values:     *)
(* a finite value s * (m[1]/m[2]) * sqrt(r[1]/r[2]) with a sign s (so that *)
(* +0 and -0 are distinct, as in IEEE 754), the two infinities, NaN, and   *)
(* the JavaScript value undefined.  Finite arithmetic is exact: rounding   *)
(* of binary64 is NOT modelled.  Math.PI and Math.atan are irrational and  *)
(* are represented by the rational stand-ins PI = 600/191 (= 180/57.3) and *)
(* the chordal interpolation Atan below; Math.sqrt is kept exact as a      *)
(* radical.  The inputs are chosen so that every exact intermediate value  *)
(* fits TLC's 32-bit integers (TLC stops with an error on overflow).       *)
(***************************************************************************)
EXTENDS Integers, Sequences, FiniteSets, TLC

\* ------------------------------------------------------------------------
\* Non-negative rationals <<n, d>> in lowest terms (magnitudes)
\* ------------------------------------------------------------------------
RECURSIVE GCD(_, _)
GCD(a, b) == IF b = 0 THEN a ELSE GCD(b, a % b)

QNorm(n, d) == LET g == GCD(n, d) IN <<n \div g, d \div g>>

QOne == <<1, 1>>

QZero == <<0, 1>>

QMul(p, q) ==
    LET g1 == GCD(p[1], q[2])
        g2 == GCD(q[1], p[2])
    IN  QNorm((p[1] \div g1) * (q[1] \div g2), (p[2] \div g2) * (q[2] \div g1))

QInv(p) == <<p[2], p[1]>>

QLcm(p, q) == (p[2] \div GCD(p[2], q[2])) * q[2]

QAdd(p, q) ==
    LET l == QLcm(p, q)
    IN  QNorm(p[1] * (l \div p[2]) + q[1] * (l \div q[2]), l)

\* p - q, for p >= q
QSub(p, q) ==
    LET l == QLcm(p, q)
    IN  QNorm(p[1] * (l \div p[2]) - q[1] * (l \div q[2]), l)

QLess(p, q) ==
    LET l == QLcm(p, q)
    IN  p[1] * (l \div p[2]) < q[1] * (l \div q[2])

\* ------------------------------------------------------------------------
\* JavaScript values
\* ------------------------------------------------------------------------
Fin(s, m) == [k |-> "fin", s |-> s, m |-> m, r |-> QOne]

Rat(n, d) == Fin(IF n < 0 THEN -1 ELSE 1, QNorm(IF n < 0 THEN -n ELSE n, d))

Num(n) == Rat(n, 1)

Zero(s) == Fin(s, QZero)

Inf(s) == [k |-> "inf", s |-> s, m |-> QZero, r |-> QOne]

NaN == [k |-> "nan", s |-> 1, m |-> QZero, r |-> QOne]

\* the JavaScript value undefined: what a function without return yields and
\* what an out-of-bounds array read yields
Undef == [k |-> "undef", s |-> 1, m |-> QZero, r |-> QOne]

\* ToNumber(undefined) is NaN: in arithmetic both behave as NaN
IsNaN(a) == a.k \in {"nan", "undef"}

IsFinite(a) == a.k = "fin"

IsZero(a) == a.k = "fin" /\ a.m[1] = 0

IsRational(a) == a.k = "fin" /\ a.r = QOne

\* numeric equality (JavaScript ===): +0 equals -0, NaN equals nothing
EqNum(a, b) ==
    /\ ~IsNaN(a)
    /\ ~IsNaN(b)
    /\ \/ a = b
       \/ IsZero(a) /\ IsZero(b)

\* the same outcome: numerically equal, or both NaN
Same(a, b) == EqNum(a, b) \/ (a.k = "nan" /\ b.k = "nan")

Neg(a) == IF IsNaN(a) THEN NaN ELSE [a EXCEPT !.s = -a.s]

Mul(a, b) ==
    IF IsNaN(a) \/ IsNaN(b) THEN NaN
    ELSE IF a.k = "inf" \/ b.k = "inf"
         THEN IF IsZero(a) \/ IsZero(b) THEN NaN ELSE Inf(a.s * b.s)
    ELSE IF IsZero(a) \/ IsZero(b) THEN Zero(a.s * b.s)
    ELSE IF a.r = b.r
         THEN Fin(a.s * b.s, QMul(QMul(a.m, b.m), a.r))
    ELSE [k |-> "fin", s |-> a.s * b.s, m |-> QMul(a.m, b.m), r |-> QMul(a.r, b.r)]

\* a / b; a radical never is a divisor in the program
Div(a, b) ==
    IF IsNaN(a) \/ IsNaN(b) THEN NaN
    ELSE IF a.k = "inf"
         THEN IF b.k = "inf" THEN NaN ELSE Inf(a.s * b.s)
    ELSE IF b.k = "inf" THEN Zero(a.s * b.s)
    ELSE IF IsZero(b)
         THEN IF IsZero(a) THEN NaN ELSE Inf(a.s * b.s)
    ELSE IF IsZero(a) THEN Zero(a.s * b.s)
    ELSE CASE b.r = QOne ->
              [k |-> "fin", s |-> a.s * b.s, m |-> QMul(a.m, QInv(b.m)), r |-> a.r]

\* a + b; radicals are never summed in the program
Add(a, b) ==
    IF IsNaN(a) \/ IsNaN(b) THEN NaN
    ELSE IF a.k = "inf"
         THEN IF b.k = "inf" /\ b.s # a.s THEN NaN ELSE a
    ELSE IF b.k = "inf" THEN b
    ELSE CASE a.r = QOne /\ b.r = QOne ->
              IF a.s = b.s THEN Fin(a.s, QAdd(a.m, b.m))
              ELSE IF a.m = b.m THEN Zero(1)
              ELSE IF QLess(b.m, a.m) THEN Fin(a.s, QSub(a.m, b.m))
              ELSE Fin(b.s, QSub(b.m, a.m))

Sub(a, b) == Add(a, Neg(b))

\* a < b (false when either is NaN or undefined)
LT(a, b) ==
    IF IsNaN(a) \/ IsNaN(b) THEN FALSE
    ELSE IF a.k = "inf" \/ b.k = "inf"
         THEN IF a.k = "inf" /\ a.s = 1 THEN FALSE
              ELSE IF b.k = "inf" /\ b.s = -1 THEN FALSE
              ELSE TRUE
    ELSE CASE a.r = QOne /\ b.r = QOne ->
              LET sa == IF IsZero(a) THEN 0 ELSE a.s
                  sb == IF IsZero(b) THEN 0 ELSE b.s
              IN  IF sa # sb THEN sa < sb
                  ELSE IF sa = 1 THEN QLess(a.m, b.m)
                  ELSE IF sa = -1 THEN QLess(b.m, a.m)
                  ELSE FALSE

GT(a, b) == LT(b, a)

LE(a, b) == LT(a, b) \/ EqNum(a, b)

\* Math.sqrt, exact: the root of a positive rational is kept as a radical
Sqrt(a) ==
    IF IsNaN(a) THEN NaN
    ELSE IF IsZero(a) THEN a
    ELSE IF a.s = -1 THEN NaN
    ELSE IF a.k = "inf" THEN a
    ELSE CASE a.r = QOne -> [k |-> "fin", s |-> 1, m |-> QOne, r |-> a.m]

\* Math.PI (stand-in): 600/191 = 180/57.3, the value of pi that the program's
\* own radian-to-degree factor 57.3 (lines 49, 265) stands for
PI == Rat(600, 191)

\* Math.atan (stand-in): odd, increasing, atan(+-0) = +-0, atan(+-1) = +-PI/4,
\* atan(+-Infinity) = +-PI/2, chords in between
Atan(a) ==
    IF IsNaN(a) THEN NaN
    ELSE IF IsZero(a) THEN a
    ELSE IF a.k = "inf" THEN Mul(Num(a.s), Div(PI, Num(2)))
    ELSE CASE a.r = QOne ->
              IF ~QLess(QOne, a.m)
              THEN Mul(a, Div(PI, Num(4)))
              ELSE Mul(Num(a.s), Sub(Div(PI, Num(2)), Div(Div(PI, Num(4)), Fin(1, a.m))))

\* ------------------------------------------------------------------------
\* interp (lines 19-30 and 235-246)
\* ------------------------------------------------------------------------
\* VX[i] of a JavaScript array, i counted from 0: undefined out of bounds
At(A, i) == IF i + 1 \in DOMAIN A THEN A[i + 1] ELSE Undef

TableOf(ints) == [x \in DOMAIN ints |-> Num(ints[x])]

\* a faulty loop, for comparison: it falls back on the last segment instead
\* of running out
RECURSIVE InterpIndexClamp(_, _, _)
InterpIndexClamp(VX, X, i) ==
    IF i >= Len(VX) THEN (IF Len(VX) >= 2 THEN Len(VX) - 2 ELSE -1)
    ELSE IF GT(At(VX, i + 1), X) THEN i
    ELSE InterpIndexClamp(VX, X, i + 1)

\* a faulty loop, for comparison: it tests VX[i1] >= X
RECURSIVE InterpIndexGE(_, _, _)
InterpIndexGE(VX, X, i) ==
    IF i >= Len(VX) THEN -1
    ELSE IF ~LT(At(VX, i + 1), X) /\ ~IsNaN(At(VX, i + 1)) THEN i
    ELSE InterpIndexGE(VX, X, i + 1)

\* the loop of interp: the index i at which `VX[i1] > X` first holds, or -1
\* when the loop runs out (i1 = i + 1 throughout)
RECURSIVE InterpIndex(_, _, _)
InterpIndex(VX, X, i) ==
    IF i >= Len(VX) THEN -1
    ELSE IF GT(At(VX, i + 1), X) THEN i
    ELSE InterpIndex(VX, X, i + 1)

\* a faulty body, for comparison: dX is measured from the right end of the
\* segment
InterpSegmentRight(VX, VY, X, i) ==
    LET i1 == i + 1
        dX == Sub(X, At(VX, i1))
        k  == Div(Sub(At(VY, i1), At(VY, i)), Sub(At(VX, i1), At(VX, i)))
    IN  Add(At(VY, i), Mul(k, dX))

\* the body of the if: dX, k and the returned value
InterpSegment(VX, VY, X, i) ==
    LET i1 == i + 1
        dX == Sub(X, At(VX, i))
        k  == Div(Sub(At(VY, i1), At(VY, i)), Sub(At(VX, i1), At(VX, i)))
    IN  Add(At(VY, i), Mul(k, dX))

interp(VX, VY, X) ==
    LET i == InterpIndex(VX, X, 0)
    IN  IF i = -1 THEN Undef ELSE InterpSegment(VX, VY, X, i)

\* ------------------------------------------------------------------------
\* getSpeedDistribution (lines 34-56 and 250-272)
\* ------------------------------------------------------------------------
\* omega: 2 * Math.PI * RPM (first variant), 2 * Math.PI * RPM / 60 (second)
AngularSpeed(variant, RPM) ==
    IF variant = "polar"
    THEN Mul(Mul(Num(2), PI), RPM)
    ELSE Div(Mul(Mul(Num(2), PI), RPM), Num(60))

SectionSample(omega, v0, localR) ==
    LET localV   == Mul(omega, localR)
        totalV   == Sqrt(Add(Mul(v0, v0), Mul(localV, localV)))
        localAoA == Neg(Atan(Div(v0, localV)))
    IN  [range |-> localR, localVelocity |-> totalV,
         localAoA |-> Mul(localAoA, Rat(573, 10))]

RECURSIVE SpeedLoop(_, _, _, _, _, _)
SpeedLoop(omega, v0, dR, localR, i, N) ==
    IF i >= N THEN <<>>
    ELSE <<SectionSample(omega, v0, localR)>>
         \o SpeedLoop(omega, v0, dR, Add(localR, dR), i + 1, N)

\* a faulty sampler, for comparison: it samples the outer edge of each
\* annulus instead of its midpoint
getSpeedDistributionEdge(variant, RPM, R, v0, N) ==
    LET omega == AngularSpeed(variant, RPM)
        dR    == Div(R, Num(N))
    IN  SpeedLoop(omega, v0, dR, dR, 0, N)

\* lines 34-56: dR = R / N, localR starts at dR * 0.5

getSpeedDistribution(variant, RPM, R, v0, N) ==
    LET omega == AngularSpeed(variant, RPM)
        dR    == Div(R, Num(N))
    IN  SpeedLoop(omega, v0, dR, Mul(dR, Rat(1, 2)), 0, N)

\* ------------------------------------------------------------------------
\* Bounds and inputs
\* ------------------------------------------------------------------------
MaxNV == 2

MaxSections == 3

MaxBlade == 2

MaxLen == 3

MaxX == 3

Variants == {"polar", "direct"}

\* a blade of N radial stations 0, 2, 3, .., N (N = 1: the single station 0,
\* tip radius 0), with section areas 1 .. N and a twist falling to 0 at the tip
Geometry(n) ==
    [RX |-> [x \in 1..n |-> IF x = 1 THEN Num(0) ELSE Num(x)],
     SX |-> [x \in 1..n |-> Num(x)],
     AX |-> [x \in 1..n |-> Num(5 * (n - x))]]

Geometries == {Geometry(n) : n \in 1..MaxSections}

\* pitch correction against forward speed: none, or a table that ends at
\* speed 1
Pitches ==
    {[VX |-> <<>>, dAVX |-> <<>>],
     [VX |-> TableOf(<<0, 1>>), dAVX |-> TableOf(<<0, 5>>)]}

\* airfoil data over [-90, 90] and over [-10, 5]; the first variant reads
\* Cx0 and POLAR, the second reads CX
Airfoils ==
    {[AX_CY |-> TableOf(<<-90, 0, 90>>), CY |-> TableOf(<<-9, 0, 9>>),
      POLAR |-> TableOf(<<1, 1, 1>>), CX |-> TableOf(<<2, 1, 2>>)],
     [AX_CY |-> TableOf(<<-10, 0, 5>>), CY |-> TableOf(<<-2, 0, 1>>),
      POLAR |-> TableOf(<<2, 2, 2>>), CX |-> TableOf(<<2, 0, 1>>)]}

\* forward speeds, m/s
Speeds == {Num(0), Num(1), Num(2)}

\* the propeller at rest, and turning at omega = 2 rad/s
RPMs(variant) == {Num(0), IF variant = "polar" THEN Div(Num(1), PI) ELSE Div(Num(60), PI)}

ConfigsOf(vr) ==
    {[variant |-> vr, nBlade |-> Num(nb),
      RX |-> g.RX, SX |-> g.SX, AX |-> g.AX, VX |-> p.VX, dAVX |-> p.dAVX,
      AX_CY |-> a.AX_CY, CY |-> a.CY, POLAR |-> a.POLAR, CX |-> a.CX,
      Cx0 |-> Rat(1, 20),
      RPM |-> rpm, v0 |-> s0, v1 |-> s1, nV |-> n, Ro |-> Num(1)] :
        nb \in 0..MaxBlade, g \in Geometries, p \in Pitches,
        a \in Airfoils, rpm \in RPMs(vr),
        s0 \in Speeds, s1 \in Speeds, n \in 0..MaxNV}

Configs == UNION {ConfigsOf(vr) : vr \in Variants}

\* ------------------------------------------------------------------------
\* State
\* ------------------------------------------------------------------------
VARIABLES
    cfg,                \* initData
    pc,                 \* position in getSpeedThrustPerformance
    i,                  \* its loop counter
    V,                  \* its current forward speed
    res,                \* its result array
    dAlpha,             \* getSingleBladeForces: pitch correction
    speedDistribution,  \* getSingleBladeForces: the section samples
    forceDistribution,  \* getSingleBladeForces: the section forces so far
    totalThrust, totalDrag, totalTorque,
    sec,                \* getSingleBladeForces: its loop counter
    run,                \* which call of getSpeedThrustPerformance this is
    base,               \* the result of the first call
    scale,              \* the factor on nBlade of the second call
    tabX, tabY, qX,     \* a call of interp: its arguments
    idx, out,           \* the segment it used and what it returned
    called

sweepVars == <<cfg, pc, i, V, res, run, base, scale>>

bladeVars == <<dAlpha, speedDistribution, forceDistribution,
               totalThrust, totalDrag, totalTorque, sec>>

interpVars == <<tabX, tabY, qX, idx, out, called>>

vars == <<sweepVars, bladeVars, interpVars>>

\* ------------------------------------------------------------------------
\* getSingleBladeForces (lines 72-120 and 288-335)
\* ------------------------------------------------------------------------
N == Len(cfg.RX)

R == At(cfg.RX, N - 1)

\* lines 89-94 (305-310): the table lookups of one section
\* lines 93-94 (308-309): the lookups of the airfoil data at totalAoA
AirfoilLookups(c, bladeSectionArea, bladeSectionAoA, totalAoA) ==
    [bladeSectionArea |-> bladeSectionArea,
     bladeSectionAoA |-> bladeSectionAoA,
     totalAoA |-> totalAoA,
     Cya |-> interp(c.AX_CY, c.CY, totalAoA),
     drag |-> interp(c.AX_CY, IF c.variant = "polar" THEN c.POLAR ELSE c.CX, totalAoA)]

\* line 92: totalAoA = bladeSectionAoA + localAoA + dAlpha
GeometryLookups(c, sample, dA, bladeSectionArea, bladeSectionAoA) ==
    AirfoilLookups(c, bladeSectionArea, bladeSectionAoA,
                   Add(Add(bladeSectionAoA, sample.localAoA), dA))

\* lines 89-90: the lookups of the blade geometry at the section radius
SectionLookups(c, sample, dA) ==
    GeometryLookups(c, sample, dA, interp(c.RX, c.SX, sample.range),
                    interp(c.RX, c.AX, sample.range))

\* lines 98-104: localTorque and the record pushed
LocalForces(range, localThrust, localDrag) ==
    [thrust |-> localThrust, drag |-> localDrag, torque |-> Mul(localDrag, range)]

\* lines 96-97: localThrust, localDrag
ForceFrom(c, range, localQS, Cya, Cxa) ==
    LocalForces(range, Mul(Cya, localQS), Mul(Cxa, localQS))

\* line 95: Cxa = Cx0 + aPolar * Cya * Cya (line 309: Cxa is the lookup of CX)
CxaOf(c, coeff, Cya) ==
    IF c.variant = "polar" THEN Add(c.Cx0, Mul(Mul(coeff, Cya), Cya)) ELSE coeff

\* lines 88, 91: localQ, localQS
ForceOfLookups(c, sample, look) ==
    ForceFrom(c, sample.range,
              Mul(look.bladeSectionArea,
                  Mul(Mul(Mul(Rat(1, 2), c.Ro), sample.localVelocity),
                      sample.localVelocity)),
              look.Cya, CxaOf(c, look.drag, look.Cya))

\* lines 87-104 (303-319): the forces of one section
SectionForce(c, sample, dA) ==
    ForceOfLookups(c, sample, SectionLookups(c, sample, dA))

\* ------------------------------------------------------------------------
\* getSpeedThrustPerformance (lines 125-163 and 340-378)
\* ------------------------------------------------------------------------
omega == AngularSpeed(cfg.variant, cfg.RPM)

rad == At(cfg.RX, Len(cfg.RX) - 1)

area == Mul(Mul(PI, rad), rad)

dV == Div(Sub(cfg.v1, cfg.v0), Num(cfg.nV))

\* a faulty count, for comparison: the loop runs nV times
nV1Short == cfg.nV

\* line 135: _nV = nV + 1
nV1 == cfg.nV + 1

\* lines 143-157: the point pushed for the speed V
\* a faulty point, for comparison: the torque of one blade is reported
SpeedPointOneBlade(c, om, ar, speed, tThrust, tTorque) ==
    LET Q      == Mul(Mul(Mul(Rat(1, 2), c.Ro), speed), speed)
        thrust == Mul(tThrust, c.nBlade)
        torque == tTorque
        power  == Mul(torque, om)
        thrustCoeff == Div(thrust, Mul(ar, Q))
    IN  [V |-> Mul(speed, Rat(18, 5)), thrust |-> thrust, torque |-> torque,
         power |-> power, thrustCoeff |-> thrustCoeff,
         thrust2power |-> Div(thrust, power)]

\* a faulty point, for comparison: the thrust is divided by the disc area
\* only, the dynamic pressure is left out
SpeedPointNoQ(c, om, ar, speed, tThrust, tTorque) ==
    LET thrust == Mul(tThrust, c.nBlade)
        torque == Mul(tTorque, c.nBlade)
        power  == Mul(torque, om)
        thrustCoeff == Div(thrust, ar)
    IN  [V |-> Mul(speed, Rat(18, 5)), thrust |-> thrust, torque |-> torque,
         power |-> power, thrustCoeff |-> thrustCoeff,
         thrust2power |-> Div(thrust, power)]

SpeedPoint(c, om, ar, speed, tThrust, tTorque) ==
    LET Q      == Mul(Mul(Mul(Rat(1, 2), c.Ro), speed), speed)
        thrust == Mul(tThrust, c.nBlade)
        torque == Mul(tTorque, c.nBlade)
        power  == Mul(torque, om)
        thrustCoeff == Div(thrust, Mul(ar, Q))
    IN  [V |-> Mul(speed, Rat(18, 5)), thrust |-> thrust, torque |-> torque,
         power |-> power, thrustCoeff |-> thrustCoeff,
         thrust2power |-> Div(thrust, power)]

InitBlade ==
    /\ dAlpha = Undef
    /\ speedDistribution = <<>>
    /\ forceDistribution = <<>>
    /\ totalThrust = Undef
    /\ totalDrag = Undef
    /\ totalTorque = Undef
    /\ sec = 0

InitInterp ==
    /\ tabX = <<>>
    /\ tabY = <<>>
    /\ qX = Undef
    /\ idx = -1
    /\ out = Undef
    /\ called = FALSE

\* lines 126-137: a call of getSpeedThrustPerformance up to its loop
InitSweep ==
    /\ cfg \in Configs
    /\ pc = "loop"
    /\ i = 0
    /\ V = cfg.v0
    /\ res = <<>>
    /\ run = 1
    /\ base = <<>>
    /\ scale = 1

Init ==
    /\ InitSweep
    /\ InitBlade
    /\ InitInterp

\* line 139, i < _nV, and lines 140, 73-84: the call of getSingleBladeForces
\* up to its section loop
CallBlade ==
    /\ pc = "loop"
    /\ i < nV1
    /\ dAlpha' = IF Len(cfg.VX) # 0 THEN interp(cfg.VX, cfg.dAVX, V) ELSE Zero(1)
    /\ speedDistribution' = getSpeedDistribution(cfg.variant, cfg.RPM, R, V, N)
    /\ forceDistribution' = <<>>
    /\ totalThrust' = Zero(1)
    /\ totalDrag' = Zero(1)
    /\ totalTorque' = Zero(1)
    /\ sec' = 0
    /\ pc' = "section"
    /\ UNCHANGED <<cfg, i, V, res, run, base, scale, interpVars>>

\* lines 86-109: one iteration of the section loop
SectionStep ==
    /\ pc = "section"
    /\ sec < N
    /\ \E f \in {SectionForce(cfg, speedDistribution[sec + 1], dAlpha)} :
           /\ forceDistribution' = Append(forceDistribution, f)
           /\ totalThrust' = Add(totalThrust, f.thrust)
           /\ totalDrag' = Add(totalDrag, totalDrag)
           /\ totalTorque' = Add(totalTorque, f.torque)
    /\ sec' = sec + 1
    /\ UNCHANGED <<sweepVars, dAlpha, speedDistribution, interpVars>>

\* lines 111-119 and 141-157: the blade returns its summary and the point
\* of this speed is pushed
PushPoint ==
    /\ pc = "section"
    /\ sec >= N
    /\ res' = Append(res, SpeedPoint(cfg, omega, area, V, totalThrust, totalTorque))
    /\ pc' = "advance"
    /\ UNCHANGED <<cfg, i, V, run, base, scale, bladeVars, interpVars>>

\* line 159 and the loop's i++
Advance ==
    /\ pc = "advance"
    /\ V' = Add(V, dV)
    /\ i' = i + 1
    /\ pc' = "loop"
    /\ UNCHANGED <<cfg, res, run, base, scale, bladeVars, interpVars>>

\* line 162
Return ==
    /\ pc = "loop"
    /\ i >= nV1
    /\ pc' = "done"
    /\ UNCHANGED <<cfg, i, V, res, run, base, scale, bladeVars, interpVars>>

Next == CallBlade \/ SectionStep \/ PushPoint \/ Advance \/ Return

Spec == Init /\ [][Next]_vars

\* ------------------------------------------------------------------------
\* Two calls on configurations that differ in nBlade only (lines 211, 423:
\* the call site), the second with nBlade multiplied by scale
\* ------------------------------------------------------------------------
Scales == {2, 3}

Rescale ==
    /\ pc = "done"
    /\ run = 1
    /\ ~IsZero(cfg.nBlade)
    /\ scale' \in Scales
    /\ cfg' = [cfg EXCEPT !.nBlade = Mul(Num(scale'), cfg.nBlade)]
    /\ base' = res
    /\ run' = 2
    /\ pc' = "loop"
    /\ i' = 0
    /\ V' = cfg.v0
    /\ res' = <<>>
    /\ UNCHANGED <<bladeVars, interpVars>>

NextScale == Next \/ Rescale

SpecScale == Init /\ [][NextScale]_vars

\* ------------------------------------------------------------------------
\* Calls of interp on small tables
\* ------------------------------------------------------------------------
Abscissae == {Num(x) : x \in 0..MaxX}

Ordinates == {Num(0), Num(10)}

TablesOver(S) == UNION {[1..n -> S] : n \in 0..MaxLen}

Queries == {Rat(h, 2) : h \in (-2)..(2 * MaxX + 2)}

InitCall ==
    /\ tabX \in TablesOver(Abscissae)
    /\ tabY \in [DOMAIN tabX -> Ordinates]
    /\ qX \in Queries
    /\ idx = -1
    /\ out = Undef
    /\ called = FALSE
    /\ cfg = <<>>
    /\ pc = "idle"
    /\ i = 0
    /\ V = Undef
    /\ res = <<>>
    /\ run = 0
    /\ base = <<>>
    /\ scale = 1
    /\ InitBlade

InterpCall ==
    /\ ~called
    /\ idx' = InterpIndex(tabX, qX, 0)
    /\ out' = interp(tabX, tabY, qX)
    /\ called' = TRUE
    /\ UNCHANGED <<tabX, tabY, qX, sweepVars, bladeVars>>

SpecInterp == InitCall /\ [][InterpCall]_vars

\* ------------------------------------------------------------------------
\* Properties of interp (under SpecInterp)
\* ------------------------------------------------------------------------
StrictlyIncreasing(T) == \A j \in 1..(Len(T) - 1) : LT(T[j], T[j + 1])

\* the line through (x0, y0) and (x1, y1), at X
Lerp(x0, y0, x1, y1, X) == Add(y0, Mul(Div(Sub(y1, y0), Sub(x1, x0)), Sub(X, x0)))

Between(a, b, y) == (LE(a, y) /\ LE(y, b)) \/ (LE(b, y) /\ LE(y, a))

\* the first j (from 0) with VX[j+1] > X
FirstAbove(VX, X) ==
    CHOOSE j \in 0..(Len(VX) - 2) :
        /\ GT(VX[j + 2], X)
        /\ \A m \in 0..(j - 1) : ~GT(VX[m + 2], X)

\* C1: with strictly increasing VX and a query X above the last breakpoint,
\* interp returns no value (undefined), never a number.
C1_NoValueAboveLast ==
    (called /\ Len(tabX) >= 1 /\ StrictlyIncreasing(tabX) /\ GT(qX, tabX[Len(tabX)]))
        => (out = Undef /\ idx = -1)

C1_Witness ==
    /\ called
    /\ Len(tabX) >= 2
    /\ StrictlyIncreasing(tabX)
    /\ GT(qX, tabX[Len(tabX)])
    /\ out = Undef

\* C2: with at least 2 points, strictly increasing VX and VX[0] <= X < VX[last],
\* interp uses the first segment i with VX[i+1] > X and returns the linear
\* formula; so VX[i] <= X < VX[i+1], the result lies between VY[i] and VY[i+1],
\* at X = VX[i] it is VY[i], and [(0,0),(1,10)] gives 5 at 0.5 and 0 at 0.
C2_InRangeInterpolation ==
    (called /\ Len(tabX) >= 2 /\ StrictlyIncreasing(tabX)
        /\ LE(tabX[1], qX) /\ LT(qX, tabX[Len(tabX)]))
        => LET j == FirstAbove(tabX, qX)
           IN  /\ idx = j
               /\ LE(tabX[j + 1], qX) /\ LT(qX, tabX[j + 2])
               /\ out = Lerp(tabX[j + 1], tabY[j + 1], tabX[j + 2], tabY[j + 2], qX)
               /\ IsFinite(out)
               /\ Between(tabY[j + 1], tabY[j + 2], out)
               /\ (EqNum(qX, tabX[j + 1]) => EqNum(out, tabY[j + 1]))
               /\ (tabX = TableOf(<<0, 1>>) /\ tabY = TableOf(<<0, 10>>) /\ qX = Rat(1, 2)
                      => out = Num(5))
               /\ (tabX = TableOf(<<0, 1>>) /\ tabY = TableOf(<<0, 10>>) /\ IsZero(qX)
                      => IsZero(out))

C2_Witness ==
    /\ called
    /\ Len(tabX) = 3
    /\ StrictlyIncreasing(tabX)
    /\ EqNum(qX, tabX[2])
    /\ idx = 1
    /\ ~IsZero(tabY[2])
    /\ out = tabY[2]

\* C9 as stated: for every X <= VX[1] (X = VX[1] included) interp returns the
\* number VY[0] + (VY[1]-VY[0])/(VX[1]-VX[0]) * (X - VX[0]).
C9_AsStated ==
    (called /\ Len(tabX) >= 2 /\ StrictlyIncreasing(tabX) /\ LE(qX, tabX[2]))
        => /\ IsFinite(out)
           /\ EqNum(out, Lerp(tabX[1], tabY[1], tabX[2], tabY[2], qX))

\* C9 amended: for every X < VX[1] (strictly; X below VX[0] included) interp
\* computes from indices 0 and 1 and returns the number
\* VY[0] + (VY[1]-VY[0])/(VX[1]-VX[0]) * (X - VX[0]); at X = VX[1] the scan
\* moves on: it returns VY[1] from the second segment when there are at least
\* 3 points, and no value when there are exactly 2.
C9_BelowSecondBreakpoint ==
    (called /\ Len(tabX) >= 2 /\ StrictlyIncreasing(tabX))
        => /\ LT(qX, tabX[2])
              => /\ idx = 0
                 /\ IsFinite(out)
                 /\ out = Lerp(tabX[1], tabY[1], tabX[2], tabY[2], qX)
           /\ (EqNum(qX, tabX[2]) /\ Len(tabX) = 2) => (out = Undef)
           /\ (EqNum(qX, tabX[2]) /\ Len(tabX) >= 3) => (idx = 1 /\ EqNum(out, tabY[2]))

C9_Witness ==
    /\ called
    /\ Len(tabX) >= 2
    /\ StrictlyIncreasing(tabX)
    /\ LT(qX, tabX[1])
    /\ idx = 0
    /\ IsFinite(out)
    /\ ~EqNum(out, tabY[1])

\* ------------------------------------------------------------------------
\* Properties of the sweep (under Spec)
\* ------------------------------------------------------------------------
Steps(c) == Div(Sub(c.v1, c.v0), Num(c.nV))

SpeedAt(c, j) == Add(c.v0, Mul(Num(j), Steps(c)))

KmH(v) == Mul(v, Rat(18, 5))

\* the points so far are the first ones of the sweep
PointsInOrder ==
    /\ \A j \in 1..Len(res) : EqNum(res[j].V, KmH(SpeedAt(cfg, j - 1)))
    /\ \A j \in 1..(Len(res) - 1) :
          /\ LT(res[j].V, res[j + 1].V)
          /\ EqNum(Sub(res[j + 1].V, res[j].V), KmH(Steps(cfg)))

C3_Invariant ==
    (cfg.nV >= 1 /\ LT(cfg.v0, cfg.v1))
        => /\ i <= cfg.nV + 1
           /\ Len(res) <= cfg.nV + 1
           /\ PointsInOrder
           /\ (pc = "loop" => (Len(res) = i /\ EqNum(V, SpeedAt(cfg, i))))
           /\ (pc = "done" =>
                 /\ Len(res) = cfg.nV + 1
                 /\ EqNum(res[1].V, KmH(cfg.v0))
                 /\ EqNum(res[Len(res)].V, KmH(cfg.v1)))

\* the number of steps the sweep has left: it is a natural number, every step
\* lowers it, and a step is possible until the sweep has returned
Remaining ==
    (cfg.nV + 1 - i) * (N + 4)
        + CASE pc = "loop" -> N + 3
            [] pc = "section" -> N + 2 - sec
            [] pc = "advance" -> 1
            [] OTHER -> 0

\* the guards of Next: some step can be taken
CanStep ==
    \/ pc = "loop" /\ (i < nV1 \/ i >= nV1)
    \/ pc = "section" /\ (sec < N \/ sec >= N)
    \/ pc = "advance"

\* C3: with nV >= 1 and v1 > v0 the sweep terminates (every step lowers
\* Remaining and a step can be taken until it has returned) with exactly nV+1
\* points; point i reports (v0 + i*(v1-v0)/nV) * 3.6, the first v0*3.6, the
\* last v1*3.6, strictly increasing with uniform spacing; at the head of
\* iteration i, V = v0 + i*dV and |res| = i (exact arithmetic).
C3_SweepPoints ==
    /\ []C3_Invariant
    /\ []((cfg.nV >= 1 /\ LT(cfg.v0, cfg.v1)) =>
            (Remaining >= 0 /\ (pc # "done" => CanStep)))
    /\ [][(cfg.nV >= 1 /\ LT(cfg.v0, cfg.v1)) => Remaining' < Remaining]_vars

C3_Witness ==
    /\ pc = "done"
    /\ cfg.nV >= 2
    /\ LT(cfg.v0, cfg.v1)
    /\ Len(res) = cfg.nV + 1
    /\ EqNum(res[Len(res)].V, KmH(cfg.v1))

\* every lookup of the current call of getSingleBladeForces returned a value
LookupsDefined ==
    /\ dAlpha # Undef
    /\ \A k \in 1..Len(speedDistribution) :
          LET look == SectionLookups(cfg, speedDistribution[k], dAlpha)
          IN  /\ look.bladeSectionArea # Undef
              /\ look.bladeSectionAoA # Undef
              /\ look.Cya # Undef
              /\ look.drag # Undef

\* C5: a lookup beyond the last breakpoint of its table makes the sweep fail
\* at that lookup: no point is pushed for a call with an absent lookup, and
\* no returned sequence holds a thrust, torque, power or coefficient that an
\* absent value was folded into (here: NaN).
C5_FailsOutright ==
    /\ pc = "advance" => LookupsDefined
    /\ pc = "done" =>
          \A j \in 1..Len(res) :
              /\ ~IsNaN(res[j].thrust)
              /\ ~IsNaN(res[j].torque)
              /\ ~IsNaN(res[j].power)

Degenerate(c) ==
    \/ IsZero(c.nBlade)
    \/ ~GT(At(c.RX, Len(c.RX) - 1), Zero(1))
    \/ ~StrictlyIncreasing(c.RX)
    \/ ~StrictlyIncreasing(c.VX)
    \/ ~StrictlyIncreasing(c.AX_CY)
    \/ (c.nV = 0 /\ EqNum(c.v0, c.v1))

\* C6: a degenerate configuration (nBlade = 0, tip radius <= 0, a table that
\* is not strictly increasing, nV = 0 with v0 = v1) is rejected before any
\* blade-force computation: the section loop is never entered and no point
\* is produced.
C6_DegenerateRejected ==
    Degenerate(cfg) => (pc \notin {"section", "advance"} /\ res = <<>>)

\* C7: at forward speed 0 with every lookup in range the point is still
\* pushed and the sweep returns nV+1 points; its thrustCoeff is not finite:
\* +Infinity for positive thrust, -Infinity for negative thrust, NaN for zero
\* thrust; its speed, thrust, torque and power are finite, and the points at
\* a nonzero speed have a finite thrustCoeff.
C7_ZeroSpeedPoint ==
    /\ pc = "done" => Len(res) = cfg.nV + 1
    /\ (pc = "advance" /\ LookupsDefined) =>
          LET p == res[Len(res)]
          IN  /\ Len(res) = i + 1
              /\ IsFinite(p.thrust) /\ IsFinite(p.torque) /\ IsFinite(p.power)
              /\ EqNum(p.V, KmH(V))
              /\ IF IsZero(V)
                 THEN /\ ~IsFinite(p.thrustCoeff)
                      /\ p.thrustCoeff = IF IsZero(p.thrust) THEN NaN ELSE Inf(p.thrust.s)
                 ELSE IsFinite(V) => IsFinite(p.thrustCoeff)

C7_Witness ==
    /\ pc = "advance"
    /\ IsZero(V)
    /\ LookupsDefined
    /\ cfg.nV >= 1
    /\ Len(speedDistribution) >= 2
    /\ res[Len(res)].thrustCoeff.k = "inf"

RECURSIVE SumSeq(_)
SumSeq(s) ==
    IF s = <<>> THEN Zero(1)
    ELSE Add(SumSeq(SubSeq(s, 1, Len(s) - 1)), s[Len(s)])

\* C8: with in-range lookups, after every iteration of the section loop and
\* at its end, totalThrust, totalDrag and totalTorque are the sums of the
\* thrust, drag and torque of the sections done so far.
C8_TotalsAreSums ==
    (pc \in {"section", "advance"} /\ LookupsDefined) =>
        /\ Len(forceDistribution) = sec
        /\ Same(totalThrust, SumSeq([k \in 1..sec |-> forceDistribution[k].thrust]))
        /\ Same(totalTorque, SumSeq([k \in 1..sec |-> forceDistribution[k].torque]))
        /\ Same(totalDrag, SumSeq([k \in 1..sec |-> forceDistribution[k].drag]))

\* the part of C8 that the code does satisfy: thrust and torque
C8_ThrustTorqueSums ==
    (pc \in {"section", "advance"} /\ LookupsDefined) =>
        /\ Len(forceDistribution) = sec
        /\ Same(totalThrust, SumSeq([k \in 1..sec |-> forceDistribution[k].thrust]))
        /\ Same(totalTorque, SumSeq([k \in 1..sec |-> forceDistribution[k].torque]))
        /\ IsZero(totalDrag)

\* C10: with N >= 2 stations, strictly increasing RX and tip radius R > 0,
\* there are exactly N samples, the k-th at (k + 1/2) * R / N, each with
\* 0 < r < R; the lookups of SX and AX at r return a number, and omega * r
\* is nonzero when RPM is nonzero.
C10_MidpointSamples ==
    (pc \in {"section", "advance"} /\ N >= 2 /\ StrictlyIncreasing(cfg.RX)
        /\ GT(R, Zero(1)))
        => /\ Len(speedDistribution) = N
           /\ \A k \in 0..(N - 1) :
                 LET r == speedDistribution[k + 1].range
                 IN  /\ EqNum(r, Mul(Rat(2 * k + 1, 2), Div(R, Num(N))))
                     /\ GT(r, Zero(1))
                     /\ LT(r, R)
                     /\ IsFinite(interp(cfg.RX, cfg.SX, r))
                     /\ IsFinite(interp(cfg.RX, cfg.AX, r))
                     /\ ~IsZero(cfg.RPM) =>
                           (IsFinite(Mul(omega, r)) /\ ~IsZero(Mul(omega, r)))

C10_Witness ==
    /\ pc = "section"
    /\ sec = N
    /\ N >= 3
    /\ ~IsZero(cfg.RPM)
    /\ LT(speedDistribution[N].range, R)
    /\ IsFinite(interp(cfg.RX, cfg.SX, speedDistribution[N].range))

\* ------------------------------------------------------------------------
\* Properties of the blade count (under SpecScale)
\* ------------------------------------------------------------------------
\* C4 as stated: with nBlade multiplied by k, thrust, torque and power of
\* every point are multiplied by k, thrustCoeff and thrust2power are
\* unchanged.
C4_AsStated ==
    (run = 2 /\ pc = "done") =>
        \A j \in 1..Len(res) :
            /\ Same(res[j].thrust, Mul(Num(scale), base[j].thrust))
            /\ Same(res[j].torque, Mul(Num(scale), base[j].torque))
            /\ Same(res[j].power, Mul(Num(scale), base[j].power))
            /\ Same(res[j].thrustCoeff, base[j].thrustCoeff)
            /\ Same(res[j].thrust2power, base[j].thrust2power)

\* C4 amended: with nBlade multiplied by k, thrust, torque, power and
\* thrustCoeff (thrust / (disc area * Q)) of every point are multiplied by k;
\* thrust2power and the reported speed are unchanged.
C4_BladeCountScaling ==
    run = 2 =>
        /\ Len(res) <= Len(base)
        /\ pc = "done" => Len(res) = Len(base)
        /\ \A j \in 1..Len(res) :
              /\ Same(res[j].thrust, Mul(Num(scale), base[j].thrust))
              /\ Same(res[j].torque, Mul(Num(scale), base[j].torque))
              /\ Same(res[j].power, Mul(Num(scale), base[j].power))
              /\ Same(res[j].thrustCoeff, Mul(Num(scale), base[j].thrustCoeff))
              /\ Same(res[j].thrust2power, base[j].thrust2power)
              /\ Same(res[j].V, base[j].V)

C4_Witness ==
    /\ run = 2
    /\ pc = "done"
    /\ scale = 3
    /\ \E j \in 1..Len(res) :
          /\ IsFinite(res[j].thrustCoeff)
          /\ ~IsZero(res[j].thrust)
          /\ ~IsZero(res[j].torque)
          /\ IsFinite(res[j].thrust2power)

====
